---- MODULE Spec2Model ----
(***************************************************************************)
(* Identity resolution, duplicate prevention and schema migration of the   *)
(* OCR document pipeline (user_management/*, aadhaar_extractor_with_sql,   *)
(* pan_extractor_with_sql), modelled as a state machine.                   *)
(*                                                                         *)
(* Strings are sequences of one-character strings, so that normalisation,  *)
(* trimming and upper-casing are computed and not assumed.  The two stores *)
(* are the two SQLite files; each SQL statement (or committed transaction)  *)
(* and each cache critical section is one atomic step of a caller.         *)
(***************************************************************************)
EXTENDS Integers, Sequences, FiniteSets, TLC

VARIABLES
    users,      \* users[db]: rows of the users table (the identity ledger) of store db
    cache,      \* UserIDManager.cache: canonical identifier -> user_data (NoUser = absent)
    docs,       \* docs[db]: document rows joined with their extracted_fields row
    xref,       \* xref[db]: rows of user_documents
    schema,     \* schema[db]: schema objects present (tables, columns, indexes)
    auditLog,   \* entries written by log_duplicate_attempt
    pc,         \* pc[p]: position of caller p
    loc,        \* loc[p]: the locals of caller p's current call
    nextUid,    \* next value of generate_user_id (uuid4: never repeats)
    nextDoc,    \* nextDoc[db]: AUTOINCREMENT sequence of the document table
    ncalls,     \* calls started so far
    done,       \* completed calls, in completion order (observation only)
    mig,        \* the DataCleanupMigrator call in progress and the results of the last one
    backups,    \* backup files: copies of a store
    migrationLog, \* DataCleanupMigrator.migration_log['operations']
    schemaLog   \* the migration_log.json of DatabaseSchemaManager.log_migration

vars == <<users, cache, docs, xref, schema, auditLog, pc, loc, nextUid, nextDoc, ncalls, done,
          mig, backups, migrationLog, schemaLog>>

callVars == <<auditLog, pc, loc, ncalls, done>>
migVars == <<mig, backups, migrationLog, schemaLog>>

-----------------------------------------------------------------------------
(* Bounds *)

\* entries the migration log grows to
MaxLogged == 3

\* length of the strings handed to the normalisers
MaxLen == 3

MaxCalls == 3
MaxRuns == 2

Procs == {1, 2}

AADHAAR_DB == "aadhaar"
PAN_DB == "pan"
DBs == {AADHAAR_DB, PAN_DB}

-----------------------------------------------------------------------------
(* Characters and strings *)

DigitChars == {"1", "2", "3"}
UpperChars == {"A", "J", "K", "X"}

UpperChar(c) ==
    CASE c = "a" -> "A"
      [] c = "j" -> "J"
      [] c = "k" -> "K"
      [] c = "x" -> "X"
      [] OTHER -> c

UpperStr(s) == [i \in 1..Len(s) |-> UpperChar(s[i])]

RECURSIVE LStrip(_)
LStrip(s) == IF s # <<>> /\ Head(s) = " " THEN LStrip(Tail(s)) ELSE s

RECURSIVE RStrip(_)
RStrip(s) == IF s # <<>> /\ s[Len(s)] = " " THEN RStrip(SubSeq(s, 1, Len(s) - 1)) ELSE s

Strip(s) == RStrip(LStrip(s))

IsAadhaarChar(c) == c \in DigitChars \cup {"X"}
IsPanChar(c) == c \in DigitChars \cup UpperChars

\* a normaliser that filters without upper-casing first
NormalizeAadhaarKeepingCase(s) ==
    IF s = <<>> THEN <<>> ELSE SelectSeq(s, LAMBDA c : c \in DigitChars \cup {"X", "x"})

normalize_aadhaar(s) == IF s = <<>> THEN <<>> ELSE SelectSeq(UpperStr(s), IsAadhaarChar)

normalize_pan(s) == IF s = <<>> THEN <<>> ELSE SelectSeq(UpperStr(s), IsPanChar)

-----------------------------------------------------------------------------
(* Inputs *)

RawAadhaar == { <<"1", "2">>, <<"1", "*", "2">>, <<"3">>, <<>> }
RawPan     == { <<"a", "1">>, <<"A", "-", "1">>, <<>> }
Names      == { <<"j", " ">>, <<"J">>, <<>> }
PanNames   == { <<"J">>, <<"k">>, <<>> }
DirNames   == { <<"j", " ">>, <<>> }
Prefs      == { "none", PAN_DB }

-----------------------------------------------------------------------------
(* Records *)

NoUser == [user_id |-> 0, aadhaar_number |-> <<>>, primary_name |-> <<>>,
           document_count |-> 0, source_db |-> "none"]

IsUser(u) == u.user_id # 0

UserData(row, db) == [user_id |-> row.user_id, aadhaar_number |-> row.aadhaar_number,
                      primary_name |-> row.primary_name,
                      document_count |-> row.document_count, source_db |-> db]

\* a Python dict is a function from its keys; d.get(k) is None (0) for a missing key
EmptyDict == [k \in {} |-> 0]

DictGet(d, k) == IF k \in DOMAIN d THEN d[k] ELSE 0

\* the dict check_aadhaar_exists / check_pan_exists build from the row they fetched
ExistingRecord(d) == [document_id |-> d.id, number |-> d.ident, name |-> d.name]

\* a row of <type>_documents joined with its extracted_fields row; at is created_at
DocRow(id, ident, name, dob, conf, at, uid) ==
    [id |-> id, ident |-> ident, name |-> name, dob |-> dob, conf |-> conf, at |-> at,
     user_id |-> uid]

IdleLoc == [op |-> "none", raw |-> <<>>, name |-> <<>>, db |-> "none", uid |-> 0,
            found |-> NoUser, ctx |-> "none", fresh |-> FALSE, pre |-> FALSE,
            wrote |-> FALSE, audited |-> FALSE, existing |-> EmptyDict]

CanonIds == {normalize_aadhaar(r) : r \in RawAadhaar}

\* a cleanup plan: duplicate groups by identifier, record ids kept and removed
NoPlan == [groups |-> {}, keep |-> {}, remove |-> {}, manual |-> {}]

\* no verify_schema_changes result yet
NoVerification == [users_table_exists |-> FALSE, user_documents_table_exists |-> FALSE,
                   unique_indexes_count |-> 0, documents_has_user_id |-> FALSE,
                   extracted_fields_has_user_id |-> FALSE]

\* no error logged
NoError == {}

IdleMig == [op |-> "none", pc |-> "idle", dry_run |-> FALSE, steps_started |-> <<>>,
            steps_completed |-> <<>>, steps_failed |-> <<>>, final_status |-> "none",
            backups_created |-> {}, plan |-> [db \in DBs |-> NoPlan], issues |-> FALSE,
            calls |-> 0, db |-> "none", repeated |-> FALSE, verification |-> NoVerification,
            error |-> NoError]

-----------------------------------------------------------------------------
(* Queries on the users tables *)

UsersByAadhaar(db, canon) == {r \in users[db] : r.aadhaar_number = canon}
UsersById(db, uid) == {r \in users[db] : r.user_id = uid}

RowsWithCanon(canon) == {<<db, r>> \in DBs \X UNION {users[d] : d \in DBs} :
                            r \in users[db] /\ r.aadhaar_number = canon}

\* get_user_by_id: the first store, Aadhaar then PAN, that holds the user_id
UserByIdAll(uid) ==
    IF UsersById(AADHAAR_DB, uid) # {}
      THEN UserData(CHOOSE r \in UsersById(AADHAAR_DB, uid) : TRUE, AADHAAR_DB)
    ELSE IF UsersById(PAN_DB, uid) # {}
      THEN UserData(CHOOSE r \in UsersById(PAN_DB, uid) : TRUE, PAN_DB)
    ELSE NoUser

StoredCount(uid) == UserByIdAll(uid).document_count

-----------------------------------------------------------------------------
(* Call bookkeeping *)

Idle(p) == pc[p] = "idle"

CanStart(p) == Idle(p) /\ ncalls < MaxCalls

\* what an observer of the call sees: its arguments in canonical form, its
\* result, and the stored document_count of the returned user at return time
Summary(l, p, res, err) ==
    [op |-> l.op, p |-> p,
     canon |-> IF l.db = PAN_DB /\ l.op \in {"ingest", "validate"}
                 THEN normalize_pan(l.raw) ELSE normalize_aadhaar(l.raw),
     db |-> l.db, uid |-> res, err |-> err, fresh |-> l.fresh, pre |-> l.pre,
     wrote |-> l.wrote, count |-> StoredCount(res),
     audited |-> l.audited, existing |-> l.existing,
     existing_user_id |-> DictGet(l.existing, "user_id"),
     existing_document_id |-> DictGet(l.existing, "document_id")]

\* done keeps the call completed last and the one completed before it
Remember(hist, e) == IF hist = <<>> THEN <<e>> ELSE <<hist[Len(hist)], e>>

\* the call of p returns res (or raises err) to its caller
FinishWith(p, l, res, err) ==
    /\ done' = Remember(done, Summary(l, p, res, err))
    /\ pc' = [pc EXCEPT ![p] = "idle"]
    /\ loc' = [loc EXCEPT ![p] = IdleLoc]

Finish(p, res, err) == FinishWith(p, loc[p], res, err)

Goto(p, label, newloc) ==
    /\ pc' = [pc EXCEPT ![p] = label]
    /\ loc' = [loc EXCEPT ![p] = newloc]
    /\ done' = done

-----------------------------------------------------------------------------
(* UserIDManager *)

\* get_or_create_user_id returns uid (err = "none") or raises err
\* to store_in_database when it is the caller: any exception becomes STORAGE_ERROR
GocReturn(p, uid, err) ==
    IF loc[p].op = "ingest"
      THEN IF err = "none"
             THEN Goto(p, "st_insert", [loc[p] EXCEPT !.uid = uid])
             ELSE Finish(p, 0, "STORAGE_ERROR")
      ELSE Finish(p, uid, err)

\* create_user returns uid or raises err; get_or_create_user_id returns what it returns
CuReturn(p, uid, err) ==
    IF loc[p].op = "create_user" THEN Finish(p, uid, err) ELSE GocReturn(p, uid, err)

\* get_user_by_aadhaar returns found to the code that called it (ctx)
LookupReturn(p, found) ==
    CASE loc[p].ctx = "lookup" ->
            /\ Finish(p, found.user_id, "none")
            /\ nextUid' = nextUid
      [] loc[p].ctx = "goc" ->
            IF IsUser(found)
              THEN /\ Goto(p, "ud_findA", [loc[p] EXCEPT !.found = found])
                   /\ nextUid' = nextUid
              ELSE \* create_user: generate_user_id, then the INSERT
                   /\ Goto(p, "cu_insert", [loc[p] EXCEPT !.uid = nextUid])
                   /\ nextUid' = nextUid + 1
      [] OTHER -> \* "cu": the IntegrityError handler of create_user
            /\ nextUid' = nextUid
            /\ IF IsUser(found)
                 THEN CuReturn(p, found.user_id, "none")
                 ELSE CuReturn(p, 0, "Failed to create user")

\* get_user_by_aadhaar, first half: empty argument, then the cache
GuCache(p) ==
    /\ pc[p] = "gu_cache"
    /\ IF loc[p].raw = <<>>
         THEN LookupReturn(p, NoUser)
         ELSE LET cached == cache[normalize_aadhaar(loc[p].raw)] IN
              IF IsUser(cached)
                THEN LookupReturn(p, cached)
                ELSE Goto(p, "gu_dbA", loc[p]) /\ nextUid' = nextUid
    /\ UNCHANGED <<users, cache, docs, xref, schema, auditLog, nextDoc, ncalls>>

\* get_user_by_aadhaar: SELECT ... FROM users WHERE aadhaar_number = ? on one store
GuQuery(p, label, db, next) ==
    /\ pc[p] = label
    /\ LET rows == UsersByAadhaar(db, normalize_aadhaar(loc[p].raw)) IN
       IF rows # {}
         THEN /\ Goto(p, "gu_add",
                      [loc[p] EXCEPT !.found = UserData(CHOOSE r \in rows : TRUE, db)])
              /\ nextUid' = nextUid
         ELSE IF next = "none"
           THEN LookupReturn(p, NoUser)
           ELSE Goto(p, next, loc[p]) /\ nextUid' = nextUid
    /\ UNCHANGED <<users, cache, docs, xref, schema, auditLog, nextDoc, ncalls>>

GuQueryAadhaar(p) == GuQuery(p, "gu_dbA", AADHAAR_DB, "gu_dbP")
GuQueryPan(p) == GuQuery(p, "gu_dbP", PAN_DB, "none")

\* get_user_by_aadhaar: _add_user_to_cache of the row just read, then return it
GuAdd(p) ==
    /\ pc[p] = "gu_add"
    /\ cache' = [cache EXCEPT ![normalize_aadhaar(loc[p].raw)] = loc[p].found]
    /\ LookupReturn(p, loc[p].found)
    /\ UNCHANGED <<users, docs, xref, schema, auditLog, nextDoc, ncalls>>

\* update_user_document_count: get_user_by_id on one store
UdFind(p, label, db, next) ==
    /\ pc[p] = label
    /\ LET rows == UsersById(db, loc[p].found.user_id) IN
       IF rows # {}
         THEN Goto(p, "ud_update",
                   [loc[p] EXCEPT !.found = UserData(CHOOSE r \in rows : TRUE, db)])
         ELSE IF next = "none"
           THEN GocReturn(p, loc[p].found.user_id, "none")   \* "User not found": False
           ELSE Goto(p, next, loc[p])
    /\ UNCHANGED <<users, cache, docs, xref, schema, auditLog, nextUid, nextDoc, ncalls>>

UdFindAadhaar(p) == UdFind(p, "ud_findA", AADHAAR_DB, "ud_findP")
UdFindPan(p) == UdFind(p, "ud_findP", PAN_DB, "none")

IncrementCountLost(rows, uid) == rows

\* update_user_document_count: UPDATE users SET document_count = document_count + 1
IncrementCount(rows, uid) ==
    {IF r.user_id = uid THEN [r EXCEPT !.document_count = @ + 1] ELSE r : r \in rows}

\* an update that deletes the row it was to rewrite
UdUpdateDeleting(p) ==
    /\ pc[p] = "ud_update"
    /\ LET db == loc[p].found.source_db IN
       users' = [users EXCEPT ![db] = @ \ UsersById(db, loc[p].found.user_id)]
    /\ Goto(p, "ud_clear", [loc[p] EXCEPT !.wrote = TRUE])
    /\ UNCHANGED <<cache, docs, xref, schema, auditLog, nextUid, nextDoc, ncalls>>

UdUpdate(p) ==
    /\ pc[p] = "ud_update"
    /\ LET db == loc[p].found.source_db IN
       users' = [users EXCEPT ![db] = IncrementCount(@, loc[p].found.user_id)]
    /\ Goto(p, "ud_clear", [loc[p] EXCEPT !.wrote = TRUE])
    /\ UNCHANGED <<cache, docs, xref, schema, auditLog, nextUid, nextDoc, ncalls>>

\* update_user_document_count: _clear_user_from_cache, then get_or_create returns
UdClear(p) ==
    /\ pc[p] = "ud_clear"
    /\ cache' = IF loc[p].found.aadhaar_number # <<>>
                  THEN [cache EXCEPT ![normalize_aadhaar(loc[p].found.aadhaar_number)] = NoUser]
                  ELSE cache
    /\ GocReturn(p, loc[p].found.user_id, "none")
    /\ UNCHANGED <<users, docs, xref, schema, auditLog, nextUid, nextDoc, ncalls>>

\* create_user: INSERT INTO users ... VALUES (?, ?, ?, 1) and commit
InsertUser(rows, uid, canon, name) ==
    rows \cup {[user_id |-> uid, aadhaar_number |-> canon,
                primary_name |-> Strip(name), document_count |-> 1]}

CuInsert(p) ==
    /\ pc[p] = "cu_insert"
    /\ LET canon == normalize_aadhaar(loc[p].raw)
           db == loc[p].db IN
       IF UsersByAadhaar(db, canon) # {}
         THEN \* UNIQUE constraint failed: re-read through get_user_by_aadhaar
              /\ Goto(p, "gu_cache", [loc[p] EXCEPT !.ctx = "cu"])
              /\ users' = users
         ELSE /\ users' = [users EXCEPT ![db] = InsertUser(@, loc[p].uid, canon, loc[p].name)]
              /\ Goto(p, "cu_cache", [loc[p] EXCEPT !.wrote = TRUE])
    /\ UNCHANGED <<cache, docs, xref, schema, auditLog, nextUid, nextDoc, ncalls>>

\* create_user: _add_user_to_cache of the new user, then return its id
CuCache(p) ==
    /\ pc[p] = "cu_cache"
    /\ LET canon == normalize_aadhaar(loc[p].raw) IN
       cache' = [cache EXCEPT ![canon] =
                    [user_id |-> loc[p].uid, aadhaar_number |-> canon,
                     primary_name |-> Strip(loc[p].name), document_count |-> 1,
                     source_db |-> loc[p].db]]
    /\ CuReturn(p, loc[p].uid, "none")
    /\ UNCHANGED <<users, docs, xref, schema, auditLog, nextUid, nextDoc, ncalls>>

IsFresh(raw) ==
    /\ \A db \in DBs : UsersByAadhaar(db, normalize_aadhaar(raw)) = {}
    /\ ~IsUser(cache[normalize_aadhaar(raw)])

PreferredDb(pref) == IF pref = "none" THEN AADHAAR_DB ELSE pref

\* get_or_create_user_id(aadhaar_number, name, preferred_db)
GetOrCreateUserId(p, raw, name, pref) ==
    /\ CanStart(p)
    /\ ncalls' = ncalls + 1
    /\ LET l == [IdleLoc EXCEPT !.op = "goc", !.raw = raw, !.name = name,
                                !.db = PreferredDb(pref), !.ctx = "goc",
                                !.fresh = IsFresh(raw)] IN
       IF raw = <<>> \/ name = <<>>
         THEN /\ done' = Remember(done, Summary(l, p, 0, "ValueError"))
              /\ UNCHANGED <<pc, loc>>
         ELSE Goto(p, "gu_cache", l)
    /\ UNCHANGED <<users, cache, docs, xref, schema, auditLog, nextUid, nextDoc>>

\* create_user(aadhaar_number, name, db_path) called directly
CreateUser(p, raw, name, db) ==
    /\ CanStart(p)
    /\ ncalls' = ncalls + 1
    /\ LET l == [IdleLoc EXCEPT !.op = "create_user", !.raw = raw, !.name = name,
                                !.db = db, !.ctx = "cu", !.uid = nextUid,
                                !.fresh = IsFresh(raw),
                                !.pre = (UsersByAadhaar(db, normalize_aadhaar(raw)) # {})] IN
       IF raw = <<>> \/ name = <<>>
         THEN /\ done' = Remember(done, Summary(l, p, 0, "ValueError"))
              /\ UNCHANGED <<pc, loc, nextUid>>
         ELSE /\ Goto(p, "cu_insert", l)
              /\ nextUid' = nextUid + 1
    /\ UNCHANGED <<users, cache, docs, xref, schema, auditLog, nextDoc>>

\* get_user_by_aadhaar(aadhaar_number) called directly
GetUserByAadhaar(p, raw) ==
    /\ CanStart(p)
    /\ ncalls' = ncalls + 1
    /\ Goto(p, "gu_cache", [IdleLoc EXCEPT !.op = "lookup", !.raw = raw, !.ctx = "lookup"])
    /\ UNCHANGED <<users, cache, docs, xref, schema, auditLog, nextUid, nextDoc>>

DirectorySteps(p) ==
    \/ GuCache(p) \/ GuQueryAadhaar(p) \/ GuQueryPan(p) \/ GuAdd(p)
    \/ UdFindAadhaar(p) \/ UdFindPan(p) \/ UdUpdate(p) \/ UdClear(p)
    \/ CuInsert(p) \/ CuCache(p)

DirectoryCalls(p) ==
    \/ \E raw \in RawAadhaar, name \in DirNames, pref \in Prefs :
          GetOrCreateUserId(p, raw, name, pref)
    \/ \E raw \in RawAadhaar, name \in DirNames, db \in DBs : CreateUser(p, raw, name, db)
    \/ \E raw \in RawAadhaar : GetUserByAadhaar(p, raw)

-----------------------------------------------------------------------------
(* DuplicatePreventionService and the two store_in_database *)

Normalize(db, s) == IF db = PAN_DB THEN normalize_pan(s) ELSE normalize_aadhaar(s)

DocType(db) == IF db = PAN_DB THEN "PAN" ELSE "AADHAAR"

DuplicateCode(db) == IF db = PAN_DB THEN "DUPLICATE_PAN" ELSE "DUPLICATE_AADHAAR"

UniqueIndex == "extracted_fields.number UNIQUE"

\* check_aadhaar_exists / check_pan_exists: WHERE ef."<Number>" = normalized
CheckExists(db, raw) ==
    IF raw = <<>> THEN {} ELSE {d \in docs[db] : d.ident = Normalize(db, raw)}

\* the records of store db whose identifier has the canonical form of raw
SameCanonical(db, raw) == {d \in docs[db] : Normalize(db, d.ident) = Normalize(db, raw)}

\* log_duplicate_attempt: one logger.warning line
AuditEntry(db, raw, name, existing) ==
    [document_type |-> DocType(db), number |-> raw, name |-> name,
     document_id |-> DictGet(existing, "document_id")]

\* validate_document_uniqueness(document_type, document_data) called directly
ValidateUniqueness(p, db, raw) ==
    /\ CanStart(p)
    /\ ncalls' = ncalls + 1
    /\ LET l == [IdleLoc EXCEPT !.op = "validate", !.raw = raw, !.db = db,
                                !.pre = (SameCanonical(db, raw) # {})] IN
       IF CheckExists(db, raw) # {}
         THEN \E d \in CheckExists(db, raw) :      \* fetchone
                 done' = Remember(done, Summary([l EXCEPT !.existing = ExistingRecord(d)],
                                                p, 0, "none"))
         ELSE done' = Remember(done, Summary(l, p, 0, "none"))
    /\ UNCHANGED <<users, cache, docs, xref, schema, auditLog, pc, loc, nextUid, nextDoc>>

\* store_in_database(extraction_result) of the tool that owns store db
StoreInDatabase(p, db, raw, name) ==
    /\ CanStart(p)
    /\ ncalls' = ncalls + 1
    /\ LET l == [IdleLoc EXCEPT !.op = "ingest", !.raw = raw, !.name = name, !.db = db,
                                !.ctx = "goc",
                                !.fresh = (db = AADHAAR_DB /\ IsFresh(raw)),
                                !.pre = (SameCanonical(db, raw) # {})] IN
       IF raw = <<>> \/ name = <<>>
         THEN /\ done' = Remember(done, Summary(l, p, 0, "INVALID_DOCUMENT_DATA"))
              /\ UNCHANGED <<pc, loc>>
         ELSE Goto(p, "st_check", l)
    /\ UNCHANGED <<users, cache, docs, xref, schema, auditLog, nextUid, nextDoc>>

\* store_in_database: validate_document_uniqueness; on a hit log_duplicate_attempt
\* and raise the duplicate error, which the handler turns into the rejection
StCheck(p) ==
    /\ pc[p] = "st_check"
    /\ LET db == loc[p].db
           hits == CheckExists(db, loc[p].raw) IN
       IF hits # {}
         THEN \E d \in hits :
                 /\ auditLog' = Append(auditLog, AuditEntry(db, loc[p].raw, loc[p].name,
                                                            ExistingRecord(d)))
                 /\ FinishWith(p, [loc[p] EXCEPT !.existing = ExistingRecord(d),
                                                 !.audited = TRUE],
                               0, DuplicateCode(db))
         ELSE /\ auditLog' = auditLog
              /\ IF db = AADHAAR_DB
                   THEN Goto(p, "gu_cache", loc[p])   \* get_or_create_user_id(number, name, db_path)
                   ELSE Goto(p, "pn_match", loc[p])
    /\ UNCHANGED <<users, cache, docs, xref, schema, nextUid, nextDoc, ncalls>>

SameName(a, b) == UpperStr(Strip(a)) = UpperStr(Strip(b))

\* PAN store_in_database: SELECT user_id FROM users WHERE UPPER(TRIM(primary_name)) =
\* UPPER(TRIM(?)) LIMIT 1 on the Aadhaar store; without a match
\* get_or_create_user_id("", name, db_path) raises ValueError
PnMatch(p) ==
    /\ pc[p] = "pn_match"
    /\ LET rows == {u \in users[AADHAAR_DB] : SameName(u.primary_name, loc[p].name)} IN
       IF rows # {}
         THEN \E u \in rows : Goto(p, "sy_find", [loc[p] EXCEPT !.uid = u.user_id])
         ELSE Finish(p, 0, "STORAGE_ERROR")
    /\ UNCHANGED <<users, cache, docs, xref, schema, auditLog, nextUid, nextDoc, ncalls>>

OtherDb(db) == IF db = AADHAAR_DB THEN PAN_DB ELSE AADHAAR_DB

\* sync_user_across_databases: get_user_by_id (the Aadhaar store answers first)
SyFind(p) ==
    /\ pc[p] = "sy_find"
    /\ LET found == UserByIdAll(loc[p].uid) IN
       IF IsUser(found)
         THEN Goto(p, "sy_check", [loc[p] EXCEPT !.found = found])
         ELSE Goto(p, "st_insert", loc[p])
    /\ UNCHANGED <<users, cache, docs, xref, schema, auditLog, nextUid, nextDoc, ncalls>>

\* sync_user_across_databases: SELECT user_id FROM users WHERE user_id = ? on the target
SyCheck(p) ==
    /\ pc[p] = "sy_check"
    /\ IF UsersById(OtherDb(loc[p].found.source_db), loc[p].uid) # {}
         THEN Goto(p, "st_insert", loc[p])
         ELSE Goto(p, "sy_insert", loc[p])
    /\ UNCHANGED <<users, cache, docs, xref, schema, auditLog, nextUid, nextDoc, ncalls>>

\* a sync that copies the row without its identifier
SyInsertWithoutIdentifier(p) ==
    /\ pc[p] = "sy_insert"
    /\ LET target == OtherDb(loc[p].found.source_db)
           f == loc[p].found
           row == [user_id |-> f.user_id, aadhaar_number |-> <<>>,
                   primary_name |-> f.primary_name, document_count |-> f.document_count] IN
       /\ users' = [users EXCEPT ![target] = @ \cup {row}]
       /\ Goto(p, "st_insert", [loc[p] EXCEPT !.wrote = TRUE])
    /\ UNCHANGED <<cache, docs, xref, schema, auditLog, nextUid, nextDoc, ncalls>>

\* an INSERT OR REPLACE that rewrites the target's ledger to the row synced
SyInsertReplacing(p) ==
    /\ pc[p] = "sy_insert"
    /\ LET target == OtherDb(loc[p].found.source_db)
           f == loc[p].found
           row == [user_id |-> f.user_id, aadhaar_number |-> f.aadhaar_number,
                   primary_name |-> f.primary_name, document_count |-> f.document_count] IN
       /\ users' = [users EXCEPT ![target] = {row}]
       /\ Goto(p, "st_insert", [loc[p] EXCEPT !.wrote = TRUE])
    /\ UNCHANGED <<cache, docs, xref, schema, auditLog, nextUid, nextDoc, ncalls>>

\* sync_user_across_databases: INSERT INTO users the row read from the source; an
\* IntegrityError (user_id or aadhaar_number taken meanwhile) is logged, False returned
SyInsert(p) ==
    /\ pc[p] = "sy_insert"
    /\ LET target == OtherDb(loc[p].found.source_db)
           f == loc[p].found
           row == [user_id |-> f.user_id, aadhaar_number |-> f.aadhaar_number,
                   primary_name |-> f.primary_name, document_count |-> f.document_count] IN
       IF UsersById(target, f.user_id) # {} \/ UsersByAadhaar(target, f.aadhaar_number) # {}
         THEN /\ users' = users
              /\ Goto(p, "st_insert", loc[p])
         ELSE /\ users' = [users EXCEPT ![target] = @ \cup {row}]
              /\ Goto(p, "st_insert", [loc[p] EXCEPT !.wrote = TRUE])
    /\ UNCHANGED <<cache, docs, xref, schema, auditLog, nextUid, nextDoc, ncalls>>

IngestDob == "d1"
IngestConfidence == 1

\* store_in_database: one transaction inserting the document row, its
\* extracted_fields row (the identifier as submitted) and the user_documents row.
\* With the unique index on the identifier column an equal stored value is an
\* IntegrityError: the transaction rolls back and handle_sqlite_error makes a
\* duplicate error with an empty existing_record.
StInsert(p) ==
    /\ pc[p] = "st_insert"
    /\ LET db == loc[p].db IN
       IF UniqueIndex \in schema[db] /\ \E d \in docs[db] : d.ident = loc[p].raw
         THEN /\ Finish(p, 0, DuplicateCode(db))
              /\ UNCHANGED <<docs, xref, nextDoc>>
         ELSE /\ docs' = [docs EXCEPT ![db] = @ \cup
                            {DocRow(nextDoc[db], loc[p].raw, loc[p].name, IngestDob,
                                    IngestConfidence, nextDoc[db], loc[p].uid)}]
              /\ xref' = [xref EXCEPT ![db] = @ \cup
                            {[user_id |-> loc[p].uid, document_type |-> DocType(db),
                              document_id |-> nextDoc[db]]}]
              /\ nextDoc' = [nextDoc EXCEPT ![db] = @ + 1]
              /\ FinishWith(p, [loc[p] EXCEPT !.wrote = TRUE], loc[p].uid, "none")
    /\ UNCHANGED <<users, cache, schema, auditLog, nextUid, ncalls>>

HasDuplicateValues(db) == \E d, e \in docs[db] : d.ident = e.ident /\ d # e

\* DatabaseSchemaManager.add_unique_constraints(db, 'extracted_fields', <Number>):
\* CREATE UNIQUE INDEX unless it exists; the CREATE fails on equal stored values
\* and the schema stays as it was (the method returns False)
WithUniqueIndex(db, objects) ==
    IF HasDuplicateValues(db) THEN objects ELSE objects \cup {UniqueIndex}

AddUniqueConstraints(db) ==
    /\ WithUniqueIndex(db, schema[db]) # schema[db]
    /\ schema' = [schema EXCEPT ![db] = WithUniqueIndex(db, @)]
    /\ UNCHANGED <<users, cache, docs, xref, auditLog, pc, loc, nextUid, nextDoc, ncalls, done>>

IngestSteps(p) ==
    \/ StCheck(p) \/ PnMatch(p) \/ SyFind(p) \/ SyCheck(p) \/ SyInsert(p) \/ StInsert(p)

IngestCalls(p) ==
    \/ \E raw \in RawAadhaar, name \in Names : StoreInDatabase(p, AADHAAR_DB, raw, name)
    \/ \E raw \in RawPan, name \in PanNames : StoreInDatabase(p, PAN_DB, raw, name)
    \/ \E raw \in RawAadhaar : ValidateUniqueness(p, AADHAAR_DB, raw)
    \/ \E raw \in RawPan : ValidateUniqueness(p, PAN_DB, raw)

-----------------------------------------------------------------------------
(* DuplicateDataIdentifier and the cleanup plan *)

Group(db, ident) == {d \in docs[db] : d.ident = ident}

\* scan_<type>_duplicates: GROUP BY the stored identifier HAVING COUNT(*) > 1
ScanDuplicates(db) ==
    {i \in {d.ident : d \in docs[db]} : Strip(i) # <<>> /\ Cardinality(Group(db, i)) > 1}

UniqueNames(g) == {UpperStr(Strip(d.name)) : d \in {x \in g : x.name # <<>>}}
UniqueDobs(g) == {d.dob : d \in {x \in g : x.dob # ""}}

same_name(g) == Cardinality(UniqueNames(g)) <= 1
same_dob(g) == Cardinality(UniqueDobs(g)) <= 1

\* a sort that puts the oldest of the records of equal confidence first
SortsBeforeOldestFirst(a, b) == a.conf > b.conf \/ (a.conf = b.conf /\ a.at < b.at)

\* sorted(records, key=(extraction_confidence or 0, created_at), reverse=True):
\* a comes strictly before b
SortsBefore(a, b) == a.conf > b.conf \/ (a.conf = b.conf /\ a.at > b.at)

\* sorted_records[0]: equal keys keep the order of the query, which SQL leaves open
FirstSorted(g) == {d \in g : \A e \in g : ~SortsBefore(e, d)}

\* max(records, key=confidence): the first of the maxima in created_at ASC order
BestRecord(g) ==
    {d \in g : /\ \A e \in g : e.conf <= d.conf
               /\ \A e \in g : e.conf = d.conf => d.at <= e.at}

SurvivorsWhateverTheNames(g) == FirstSorted(g)

\* analyze_duplicates_for_cleanup: the records a group may keep; none = manual review
Survivors(g) ==
    IF same_name(g) /\ same_dob(g) THEN FirstSorted(g)
    ELSE IF Cardinality(UniqueNames(g)) = 1 THEN BestRecord(g)
    ELSE {}

AutoGroups(db) == {i \in ScanDuplicates(db) : Survivors(Group(db, i)) # {}}

PlansKeepingEveryBest(db) ==
    {[groups |-> ScanDuplicates(db),
      keep |-> UNION {{d.id : d \in Survivors(Group(db, i))} : i \in AutoGroups(db)},
      remove |-> UNION {{d.id : d \in Group(db, i) \ Survivors(Group(db, i))} :
                           i \in AutoGroups(db)},
      manual |-> ScanDuplicates(db) \ AutoGroups(db)]}

\* the cleanup plans analyze_duplicates_for_cleanup can return for store db
Plans(db) ==
    {[groups |-> ScanDuplicates(db),
      keep |-> {k[i].id : i \in AutoGroups(db)},
      remove |-> UNION {{d.id : d \in Group(db, i) \ {k[i]}} : i \in AutoGroups(db)},
      manual |-> ScanDuplicates(db) \ AutoGroups(db)] :
        k \in {f \in [AutoGroups(db) -> docs[db]] :
                  \A i \in AutoGroups(db) : f[i] \in Survivors(Group(db, i))}}

DocsAfterRemovingGroups(db, plan) ==
    {d \in docs[db] : d.id \notin plan.remove \cup plan.keep}

\* remove_duplicate_record for every record of records_to_remove
DocsAfterRemoval(db, plan) == {d \in docs[db] : d.id \notin plan.remove}

CleanupDocsAlways(db, dry, plan) == DocsAfterRemoval(db, plan)

\* cleanup_<type>_duplicates(dry_run): the store's records when it returns
CleanupDocs(db, dry, plan) == IF dry THEN docs[db] ELSE DocsAfterRemoval(db, plan)

CleanupOperation(db) ==
    IF db = PAN_DB THEN "pan_duplicate_cleanup" ELSE "aadhaar_duplicate_cleanup"

\* cleanup_<type>_duplicates(dry_run): what it appends to migration_log['operations']
CleanupLog(db, dry, plan) ==
    IF dry \/ plan.groups = {} THEN <<>> ELSE <<CleanupOperation(db)>>

-----------------------------------------------------------------------------
(* DataCleanupMigrator.run_complete_migration and the steps it calls *)

StepsInOrder == <<"create_backups", "schema_updates", "cleanup_duplicates",
                  "user_migration", "apply_constraints", "verify_integrity">>

StepRank(step) == CHOOSE i \in 1..Len(StepsInOrder) : StepsInOrder[i] = step

\* the steps under "if not dry_run"
SkippedInDryRun == {"create_backups", "schema_updates", "user_migration", "apply_constraints"}

\* the first step at or after position i that the run executes; "finish" after the last
RECURSIVE StepFrom(_, _)
StepFrom(i, dry) ==
    IF i > Len(StepsInOrder) THEN "finish"
    ELSE IF dry /\ StepsInOrder[i] \in SkippedInDryRun THEN StepFrom(i + 1, dry)
    ELSE StepsInOrder[i]

NextStepAfterRepeated(step, dry) == step

NextStepAfter(step, dry) == StepFrom(StepRank(step) + 1, dry)

InStep(step) == mig.op = "run" /\ mig.pc = step

CanCallMigrator == mig.pc = "idle" /\ mig.calls < MaxRuns

FinalStatusIgnoringIssues(m) ==
    IF m.steps_failed = <<>> THEN "completed_successfully" ELSE "completed_with_errors"

\* "Determine final status" at the end of the try block
FinalStatus(m) ==
    IF m.steps_failed = <<>>
      THEN IF m.issues THEN "completed_with_warnings" ELSE "completed_successfully"
      ELSE "completed_with_errors"

\* the step ran to its end: steps_completed.append(step), then the next step
StepCompleted(m, step) ==
    LET m2 == [m EXCEPT !.steps_started = Append(@, step),
                        !.steps_completed = Append(@, step)] IN
    IF NextStepAfter(step, m.dry_run) = "finish"
      THEN [m2 EXCEPT !.pc = "idle", !.final_status = FinalStatus(m2)]
      ELSE [m2 EXCEPT !.pc = NextStepAfter(step, m.dry_run)]

\* steps_failed.append(step); raise MigrationError: the handler sets 'failed'
StepFailed(m, step) ==
    [m EXCEPT !.steps_started = Append(@, step), !.steps_failed = Append(@, step),
              !.pc = "idle", !.final_status = "failed"]

\* a method of the migrator called on its own returns
Returned(op, dry) ==
    [IdleMig EXCEPT !.op = op, !.dry_run = dry, !.final_status = "returned",
                    !.calls = mig.calls + 1]

\* run_complete_migration(dry_run): migration_results is initialised
RunCompleteMigration(dry) ==
    /\ CanCallMigrator
    /\ mig' = [IdleMig EXCEPT !.op = "run", !.dry_run = dry, !.pc = StepFrom(1, dry),
                              !.final_status = "in_progress", !.calls = mig.calls + 1]
    /\ UNCHANGED <<users, cache, docs, xref, schema, nextUid, nextDoc, backups,
                   migrationLog, schemaLog>>
    /\ UNCHANGED callVars

\* shutil.copy2 of the store file
BackupOf(db, kind) ==
    [db |-> db, kind |-> kind, docs |-> docs[db], users |-> users[db], schema |-> schema[db]]

\* Step 1: create_migration_backup for both stores
CreateBackups ==
    /\ InStep("create_backups")
    /\ backups' = backups \cup {BackupOf(db, "pre_migration") : db \in DBs}
    /\ mig' = StepCompleted([mig EXCEPT !.backups_created =
                                {BackupOf(db, "pre_migration") : db \in DBs}],
                            "create_backups")
    /\ UNCHANGED <<users, cache, docs, xref, schema, nextUid, nextDoc, migrationLog, schemaLog>>
    /\ UNCHANGED callVars

UsersTableObjects == {"users", "users.aadhaar_number UNIQUE", "idx_users_aadhaar",
                      "user_documents"}
UserIdColumns == {"documents.user_id", "extracted_fields.user_id"}

\* create_users_table: three CREATE ... IF NOT EXISTS statements
CreateUsersTableOn(objects) ==
    LET withUsers == IF "users" \in objects THEN objects
                     ELSE objects \cup {"users", "users.aadhaar_number UNIQUE"}
        withIndex == withUsers \cup {"idx_users_aadhaar"}
    IN [schema |-> withIndex \cup {"user_documents"}, ok |-> TRUE]

AddUserIdColumnsUnchecked(objects) ==
    IF UserIdColumns \cap objects # {}
      THEN [schema |-> objects, ok |-> FALSE]
      ELSE [schema |-> objects \cup UserIdColumns, ok |-> TRUE]

\* add_user_id_columns: PRAGMA table_info, then ALTER TABLE ... ADD COLUMN user_id
\* for each of the two tables that lacks it; the ALTER of a missing table raises
AddUserIdColumnsOn(objects) ==
    IF "documents" \notin objects THEN [schema |-> objects, ok |-> FALSE]
    ELSE IF "extracted_fields" \notin objects
      THEN [schema |-> objects \cup {"documents.user_id"}, ok |-> FALSE]
      ELSE [schema |-> objects \cup {"documents.user_id", "extracted_fields.user_id"},
            ok |-> TRUE]

\* the status a call of DatabaseSchemaManager returns with
SchemaCallReturned(op, db, ok) ==
    [Returned(op, FALSE) EXCEPT !.final_status = IF ok THEN "success" ELSE "failed",
                                !.db = db,
                                !.repeated = (mig.op = op /\ mig.db = db)]

\* DatabaseSchemaManager.create_users_table(db_path)
CreateUsersTable(db) ==
    /\ CanCallMigrator
    /\ schema' = [schema EXCEPT ![db] = CreateUsersTableOn(@).schema]
    /\ mig' = SchemaCallReturned("create_users_table", db, CreateUsersTableOn(schema[db]).ok)
    /\ UNCHANGED <<users, cache, docs, xref, nextUid, nextDoc, backups, migrationLog,
                   schemaLog>>
    /\ UNCHANGED callVars

\* DatabaseSchemaManager.add_user_id_columns(db_path, <type>_documents, extracted_fields)
AddUserIdColumns(db) ==
    /\ CanCallMigrator
    /\ schema' = [schema EXCEPT ![db] = AddUserIdColumnsOn(@).schema]
    /\ mig' = SchemaCallReturned("add_user_id_columns", db, AddUserIdColumnsOn(schema[db]).ok)
    /\ UNCHANGED <<users, cache, docs, xref, nextUid, nextDoc, backups, migrationLog,
                   schemaLog>>
    /\ UNCHANGED callVars

\* logger.error(f"Failed to add unique constraints: {e}") where e is sqlite's
\* "UNIQUE constraint failed: extracted_fields.<Number>": what the line says
UniqueConstraintError == {"Failed to add unique constraints", "UNIQUE constraint failed"}

\* add_unique_constraints called on its own: the schema it leaves, the value it
\* returns and the error line it logs
AddUniqueConstraintsCall(db) ==
    /\ CanCallMigrator
    /\ "extracted_fields" \in schema[db]
    /\ schema' = [schema EXCEPT ![db] = WithUniqueIndex(db, @)]
    /\ mig' = [SchemaCallReturned("add_unique_constraints", db, ~HasDuplicateValues(db))
                  EXCEPT !.error = IF HasDuplicateValues(db) THEN UniqueConstraintError
                                   ELSE NoError]
    /\ UNCHANGED <<users, cache, docs, xref, nextUid, nextDoc, backups, migrationLog,
                   schemaLog>>
    /\ UNCHANGED callVars

\* the name a schema object has in sqlite_master when it is an index, as words:
\* sqlite_autoindex_users_2 for the UNIQUE column, idx_users_aadhaar,
\* idx_extracted_fields_<number>_unique; no words for an object that is no index
IndexNameWords(object) ==
    IF object = "users.aadhaar_number UNIQUE" THEN <<"sqlite", "autoindex", "users", "2">>
    ELSE IF object = "idx_users_aadhaar" THEN <<"idx", "users", "aadhaar">>
    ELSE IF object = UniqueIndex THEN <<"idx", "extracted", "fields", "number", "unique">>
    ELSE <<>>

\* WHERE type='index' AND name LIKE '%unique%'
NameLikeUnique(object) ==
    \E i \in 1..Len(IndexNameWords(object)) : IndexNameWords(object)[i] = "unique"

\* verify_schema_changes: the flags it returns for a store with these objects
VerifySchemaChangesOn(objects) ==
    [users_table_exists |-> "users" \in objects,
     user_documents_table_exists |-> "user_documents" \in objects,
     unique_indexes_count |-> Cardinality({o \in objects : NameLikeUnique(o)}),
     documents_has_user_id |-> "documents.user_id" \in objects,
     extracted_fields_has_user_id |-> "extracted_fields.user_id" \in objects]

\* DatabaseSchemaManager.verify_schema_changes(db_path)
VerifySchemaChanges(db) ==
    /\ CanCallMigrator
    /\ mig' = [SchemaCallReturned("verify_schema_changes", db, TRUE)
                  EXCEPT !.verification = VerifySchemaChangesOn(schema[db])]
    /\ UNCHANGED <<users, cache, docs, xref, schema, nextUid, nextDoc, backups,
                   migrationLog, schemaLog>>
    /\ UNCHANGED callVars

\* migrate_<type>_database up to the call of add_foreign_key_constraints:
\* create_users_table, add_user_id_columns, add_unique_constraints
MigratedSchema(db) == WithUniqueIndex(db, schema[db] \cup UsersTableObjects \cup UserIdColumns)

\* migrate_<type>_database calls add_foreign_key_constraints(db_path) without the
\* table_name it requires: TypeError, log_migration(..., 'failed', ...), return False
MigrateDatabaseStatus(db) == "failed"

SchemaOperation(db) == IF db = PAN_DB THEN "pan_migration" ELSE "aadhaar_migration"

\* json.load of the log file succeeds: no entry of it was cut short
Readable(log) == \A i \in 1..Len(log) : log[i].details # "cut"

\* log_migration: the file after the call. An unreadable file is read as an
\* empty log; open(path, 'w') and json.dump write the entries back and then the
\* new one, which is cut short at the first value json cannot serialise
LogMigrationOn(log, operation, status, serialisable) ==
    Append(IF Readable(log) THEN log ELSE <<>>,
           [operation |-> operation, status |-> status,
            details |-> IF serialisable THEN "written" ELSE "cut"])

\* DatabaseSchemaManager.log_migration(operation, status, details) called on its
\* own; it returns nothing
LogMigration(operation, status, serialisable) ==
    /\ mig.pc = "idle"
    /\ Len(schemaLog) < MaxLogged
    /\ schemaLog' = LogMigrationOn(schemaLog, operation, status, serialisable)
    /\ UNCHANGED <<users, cache, docs, xref, schema, nextUid, nextDoc, mig, backups,
                   migrationLog>>
    /\ UNCHANGED callVars

\* Step 2: DatabaseSchemaManager.migrate_all_databases, also callable on its own
MigrateAllDatabases ==
    /\ \/ /\ InStep("schema_updates")
          /\ mig' = IF \A db \in DBs : MigrateDatabaseStatus(db) = "success"
                      THEN StepCompleted(mig, "schema_updates")
                      ELSE StepFailed(mig, "schema_updates")
       \/ /\ CanCallMigrator
          /\ mig' = Returned("migrate_all_databases", FALSE)
    /\ backups' = backups \cup {BackupOf(db, "schema") : db \in DBs}
    /\ schema' = [db \in DBs |-> MigratedSchema(db)]
    /\ schemaLog' = LogMigrationOn(LogMigrationOn(schemaLog, SchemaOperation(AADHAAR_DB),
                                                  MigrateDatabaseStatus(AADHAAR_DB), TRUE),
                                   SchemaOperation(PAN_DB), MigrateDatabaseStatus(PAN_DB), TRUE)
    /\ UNCHANGED <<users, cache, docs, xref, nextUid, nextDoc, migrationLog>>
    /\ UNCHANGED callVars

\* Step 3: cleanup_aadhaar_duplicates(dry_run), then cleanup_pan_duplicates(dry_run)
CleanupDuplicates ==
    /\ InStep("cleanup_duplicates")
    /\ \E pa \in Plans(AADHAAR_DB), pp \in Plans(PAN_DB) :
          LET plan == [db \in DBs |-> IF db = AADHAAR_DB THEN pa ELSE pp] IN
          /\ docs' = [db \in DBs |-> CleanupDocs(db, mig.dry_run, plan[db])]
          /\ migrationLog' = migrationLog \o CleanupLog(AADHAAR_DB, mig.dry_run, pa)
                                          \o CleanupLog(PAN_DB, mig.dry_run, pp)
          /\ mig' = StepCompleted([mig EXCEPT !.plan = plan], "cleanup_duplicates")
    /\ UNCHANGED <<users, cache, xref, schema, nextUid, nextDoc, backups, schemaLog>>
    /\ UNCHANGED callVars

\* cleanup_aadhaar_duplicates(dry_run) / cleanup_pan_duplicates(dry_run) called on its own
CleanupStore(db, dry) ==
    /\ CanCallMigrator
    /\ \E plan \in Plans(db) :
          /\ docs' = [docs EXCEPT ![db] = CleanupDocs(db, dry, plan)]
          /\ migrationLog' = migrationLog \o CleanupLog(db, dry, plan)
          /\ mig' = [Returned("cleanup", dry) EXCEPT !.plan[db] = plan]
    /\ UNCHANGED <<users, cache, xref, schema, nextUid, nextDoc, backups, schemaLog>>
    /\ UNCHANGED callVars

\* verify_migration_integrity: what makes it report an issue for store db
HasIssues(db) ==
    \/ ScanDuplicates(db) # {}
    \/ "extracted_fields.user_id" \notin schema[db]      \* the COUNT raises
    \/ docs[db] = {}                                     \* coverage_percentage is 0
    \/ \E d \in docs[db] : d.user_id = 0                 \* user_id IS NULL

\* a verification that repairs what it finds: it deletes the records that carry
\* no user_id before it reports
VerifyMigrationIntegrityCorrecting ==
    /\ \/ /\ InStep("verify_integrity")
          /\ mig' = StepCompleted([mig EXCEPT !.issues = \E db \in DBs : HasIssues(db)],
                                  "verify_integrity")
       \/ /\ CanCallMigrator
          /\ mig' = [Returned("verify_migration_integrity", FALSE)
                        EXCEPT !.issues = \E db \in DBs : HasIssues(db)]
    /\ migrationLog' = Append(migrationLog, "verify_integrity")
    /\ docs' = [db \in DBs |-> {d \in docs[db] : d.user_id # 0}]
    /\ UNCHANGED <<users, cache, xref, schema, nextUid, nextDoc, backups, schemaLog>>
    /\ UNCHANGED callVars

\* Step 6: verify_migration_integrity, also callable on its own
VerifyMigrationIntegrity ==
    /\ \/ /\ InStep("verify_integrity")
          /\ mig' = StepCompleted([mig EXCEPT !.issues = \E db \in DBs : HasIssues(db)],
                                  "verify_integrity")
       \/ /\ CanCallMigrator
          /\ mig' = [Returned("verify_migration_integrity", FALSE)
                        EXCEPT !.issues = \E db \in DBs : HasIssues(db)]
    /\ migrationLog' = Append(migrationLog, "verify_integrity")
    /\ UNCHANGED <<users, cache, docs, xref, schema, nextUid, nextDoc, backups, schemaLog>>
    /\ UNCHANGED callVars

\* the orders in which a SELECT without ORDER BY can return the rows S
Orderings(S) ==
    {f \in [1..Cardinality(S) -> S] : \A i, j \in 1..Cardinality(S) : f[i] = f[j] => i = j}

\* SELECT DISTINCT <Number>, "Name" ... WHERE both are non-empty
DistinctPairs(db) == {<<d.ident, d.name>> : d \in {x \in docs[db] : x.ident # <<>> /\ x.name # <<>>}}

HasUserIdColumns(db) == UserIdColumns \subseteq schema[db]

\* UPDATE <type>_documents / extracted_fields SET user_id = ? WHERE <Number> = ?
SetUserId(rows, ident, uid) ==
    {IF d.ident = ident THEN [d EXCEPT !.user_id = uid] ELSE d : d \in rows}

\* get_or_create_user_id(number, name, aadhaar_db_path) run to its end from st, while
\* the caller's own connection may hold the write lock of the Aadhaar store
\* (st.locked): a write of the UserIDManager to that store then fails with
\* "database is locked".  st.uid is the user_id returned, 0 when create_user raised.
GetOrCreateIn(st, raw, name) ==
    LET canon == normalize_aadhaar(raw)
        rowsA == {r \in st.users[AADHAAR_DB] : r.aadhaar_number = canon}
        rowsP == {r \in st.users[PAN_DB] : r.aadhaar_number = canon}
        found == IF IsUser(st.cache[canon]) THEN st.cache[canon]
                 ELSE IF rowsA # {} THEN UserData(CHOOSE r \in rowsA : TRUE, AADHAAR_DB)
                 ELSE IF rowsP # {} THEN UserData(CHOOSE r \in rowsP : TRUE, PAN_DB)
                 ELSE NoUser
        src == IF \E r \in st.users[AADHAAR_DB] : r.user_id = found.user_id
                 THEN AADHAAR_DB ELSE PAN_DB
    IN
    IF IsUser(found)
      THEN IF src = AADHAAR_DB /\ st.locked
             THEN \* update_user_document_count logs the error and returns False
                  [st EXCEPT !.cache[canon] = found, !.uid = found.user_id]
             ELSE [st EXCEPT !.users[src] = IncrementCount(@, found.user_id),
                             !.cache[canon] = IF found.aadhaar_number # <<>> THEN NoUser
                                              ELSE found,
                             !.uid = found.user_id]
      ELSE IF st.locked
             THEN [st EXCEPT !.uid = 0, !.nextUid = @ + 1]
             ELSE [st EXCEPT !.users[AADHAAR_DB] = InsertUser(@, st.nextUid, canon, name),
                             !.cache[canon] =
                                 [user_id |-> st.nextUid, aadhaar_number |-> canon,
                                  primary_name |-> Strip(name), document_count |-> 1,
                                  source_db |-> AADHAAR_DB],
                             !.uid = st.nextUid, !.nextUid = @ + 1]

\* the loop over unique_aadhaar_records inside one connection of the Aadhaar store:
\* the first UPDATE opens the write transaction that is committed after the loop
RECURSIVE MigrateAadhaarPairs(_, _)
MigrateAadhaarPairs(st, pairs) ==
    IF pairs = <<>> THEN st
    ELSE LET g == GetOrCreateIn(st, Head(pairs)[1], Head(pairs)[2]) IN
         MigrateAadhaarPairs(
             IF g.uid = 0 \/ ~HasUserIdColumns(AADHAAR_DB)
               THEN g                       \* the exception is recorded, next pair
               ELSE [g EXCEPT !.docs = SetUserId(@, Head(pairs)[1], g.uid), !.locked = TRUE],
             Tail(pairs))

\* INSERT OR IGNORE INTO users (user_id, aadhaar_number, primary_name, document_count)
\* VALUES (?, '', ?, 1): ignored when a row with aadhaar_number '' exists
InsertPanOnlyUser(rows, uid, name) ==
    IF \E r \in rows : r.aadhaar_number = <<>> \/ r.user_id = uid
      THEN rows
      ELSE rows \cup {[user_id |-> uid, aadhaar_number |-> <<>>, primary_name |-> name,
                       document_count |-> 1]}

\* the loop over unique_pan_records: generate_user_id, the INSERT OR IGNORE, the UPDATEs
RECURSIVE MigratePanPairs(_, _)
MigratePanPairs(st, pairs) ==
    IF pairs = <<>> THEN st
    ELSE MigratePanPairs(
             [st EXCEPT !.users = InsertPanOnlyUser(@, st.nextUid, Head(pairs)[2]),
                        !.docs = IF HasUserIdColumns(PAN_DB)
                                   THEN SetUserId(@, Head(pairs)[1], st.nextUid) ELSE @,
                        !.nextUid = @ + 1],
             Tail(pairs))

\* Step 4: migrate_existing_data_to_user_system, also callable on its own
MigrateExistingDataToUserSystem ==
    /\ \/ /\ InStep("user_migration")
          /\ mig' = StepCompleted(mig, "user_migration")
       \/ /\ CanCallMigrator
          /\ mig' = Returned("migrate_existing_data_to_user_system", FALSE)
    /\ \E oa \in Orderings(DistinctPairs(AADHAAR_DB)), op \in Orderings(DistinctPairs(PAN_DB)) :
          LET a == MigrateAadhaarPairs([users |-> users, cache |-> cache,
                                        docs |-> docs[AADHAAR_DB], nextUid |-> nextUid,
                                        locked |-> FALSE, uid |-> 0], oa)
              b == MigratePanPairs([users |-> a.users[PAN_DB], docs |-> docs[PAN_DB],
                                    nextUid |-> a.nextUid], op) IN
          /\ users' = [db \in DBs |-> IF db = PAN_DB THEN b.users ELSE a.users[db]]
          /\ cache' = a.cache
          /\ docs' = [db \in DBs |-> IF db = PAN_DB THEN b.docs ELSE a.docs]
          /\ nextUid' = b.nextUid
    /\ migrationLog' = Append(migrationLog, "user_system_migration")
    /\ UNCHANGED <<xref, schema, nextDoc, backups, schemaLog>>
    /\ UNCHANGED callVars

\* Step 5: apply_database_constraints, also callable on its own
ApplyDatabaseConstraints ==
    /\ \/ /\ InStep("apply_constraints")
          /\ mig' = StepCompleted(mig, "apply_constraints")
       \/ /\ CanCallMigrator
          /\ mig' = Returned("apply_database_constraints", FALSE)
    /\ schema' = [db \in DBs |-> WithUniqueIndex(db, schema[db])]
    /\ migrationLog' = Append(migrationLog, "apply_constraints")
    /\ UNCHANGED <<users, cache, docs, xref, nextUid, nextDoc, backups, schemaLog>>
    /\ UNCHANGED callVars

-----------------------------------------------------------------------------
(* Initial state: both stores as the constructors leave them *)

InitSchema == {"users", "users.aadhaar_number UNIQUE", "user_documents",
               "documents", "documents.user_id", "extracted_fields",
               "extracted_fields.user_id"}

InitMigrator ==
    /\ mig = IdleMig
    /\ backups = {}
    /\ migrationLog = <<>>
    /\ schemaLog = <<>>

Init ==
    /\ InitMigrator
    /\ users = [db \in DBs |-> {}]
    /\ cache = [c \in CanonIds |-> NoUser]
    /\ docs = [db \in DBs |-> {}]
    /\ xref = [db \in DBs |-> {}]
    /\ schema = [db \in DBs |-> InitSchema]
    /\ auditLog = <<>>
    /\ pc = [p \in Procs |-> "idle"]
    /\ loc = [p \in Procs |-> IdleLoc]
    /\ nextUid = 1
    /\ nextDoc = [db \in DBs |-> 1]
    /\ ncalls = 0
    /\ done = <<>>

\* one caller at a time: the UserDirectory used sequentially
NextSeq == (DirectorySteps(1) \/ DirectoryCalls(1)) /\ UNCHANGED migVars
SpecSeq == Init /\ [][NextSeq]_vars

\* two callers sharing one UserIDManager
NextDir == (\E p \in Procs : DirectorySteps(p) \/ DirectoryCalls(p)) /\ UNCHANGED migVars
SpecDir == Init /\ [][NextDir]_vars

\* one caller at a time at the ingestion boundary, the directory and the schema manager
NextStore ==
    /\ \/ DirectorySteps(1) \/ IngestSteps(1) \/ IngestCalls(1)
       \/ \E raw \in RawAadhaar, name \in DirNames : GetOrCreateUserId(1, raw, name, PAN_DB)
       \/ \E db \in DBs : AddUniqueConstraints(db)
    /\ UNCHANGED migVars
SpecStore == Init /\ [][NextStore]_vars

\* stores filled before user management existed: no user_id columns, no
\* user_documents table; the migrator's constructor has created the users tables
LegacySchema == {"users", "users.aadhaar_number UNIQUE", "documents", "extracted_fields"}

LegacyAadhaar ==
    {{DocRow(1, <<"1", "2">>, <<"j">>, "d1", 1, 1, 0)} \cup second \cup third :
        second \in {{}} \cup {{DocRow(2, <<"1", "2">>, n, b, c, 1, 0)} :
                               n \in {<<"J", " ">>, <<"k">>}, b \in {"d1", "d2"}, c \in {1, 2}},
        third \in {{}} \cup {{DocRow(3, i, <<"j">>, "d1", 2, 2, 0)} :
                               i \in {<<"1", "2">>, <<"1", "*", "2">>, <<"3">>}}}

LegacyPan ==
    {{DocRow(1, <<"A", "1">>, <<"J">>, "d1", 1, 1, 0)} \cup second :
        second \in {{}} \cup {{DocRow(2, <<"A", "1">>, n, "d1", 1, 1, 0)} :
                               n \in {<<"J">>, <<"k">>}}}

NextId(rows) == 1 + Cardinality(rows) + Cardinality({i \in 1..Cardinality(rows) :
                                                      \A d \in rows : d.id # i})

InitLegacy ==
    /\ InitMigrator
    /\ users = [db \in DBs |-> {}]
    /\ cache = [c \in CanonIds |-> NoUser]
    /\ docs \in {[db \in DBs |-> IF db = PAN_DB THEN p ELSE a] :
                    a \in LegacyAadhaar, p \in LegacyPan}
    /\ xref = [db \in DBs |-> {}]
    /\ schema = [db \in DBs |-> LegacySchema]
    /\ auditLog = <<>>
    /\ pc = [p \in Procs |-> "idle"]
    /\ loc = [p \in Procs |-> IdleLoc]
    /\ nextUid = 1
    /\ nextDoc = [db \in DBs |-> NextId(docs[db])]
    /\ ncalls = 0
    /\ done = <<>>

\* the migrator working alone on two legacy stores
NextMig ==
    \/ \E dry \in BOOLEAN : RunCompleteMigration(dry)
    \/ CreateBackups \/ MigrateAllDatabases \/ CleanupDuplicates
    \/ MigrateExistingDataToUserSystem \/ ApplyDatabaseConstraints
    \/ VerifyMigrationIntegrity
    \/ \E db \in DBs, dry \in BOOLEAN : CleanupStore(db, dry)
SpecMig == InitLegacy /\ [][NextMig]_vars

\* legacy stores on which migrate_all_databases has run once: the users tables,
\* the user_id columns and, where the identifiers are all different, the index
InitMigratedSchema ==
    /\ InitMigrator
    /\ users = [db \in DBs |-> {}]
    /\ cache = [c \in CanonIds |-> NoUser]
    /\ docs \in {[db \in DBs |-> IF db = PAN_DB THEN p ELSE a] :
                    a \in LegacyAadhaar, p \in LegacyPan}
    /\ xref = [db \in DBs |-> {}]
    /\ schema = [db \in DBs |->
                   WithUniqueIndex(db, LegacySchema \cup UsersTableObjects \cup UserIdColumns)]
    /\ auditLog = <<>>
    /\ pc = [p \in Procs |-> "idle"]
    /\ loc = [p \in Procs |-> IdleLoc]
    /\ nextUid = 1
    /\ nextDoc = [db \in DBs |-> NextId(docs[db])]
    /\ ncalls = 0
    /\ done = <<>>

\* the schema migration and the identity migration run again and again
NextRerun == MigrateAllDatabases \/ MigrateExistingDataToUserSystem
SpecRerun == InitMigratedSchema /\ [][NextRerun]_vars

\* the schema manager's log written by its callers, one entry per call
NextLog ==
    \E db \in DBs, status \in {"success", "failed"}, serialisable \in BOOLEAN :
        LogMigration(SchemaOperation(db), status, serialisable)
SpecLog == Init /\ [][NextLog]_vars

\* stores as ingestion and legacy imports leave them: a name or a date of
\* birth may be missing, an identifier may be stored with a separator
ScannedAadhaar ==
    {{DocRow(1, <<"1", "2">>, n1, b1, 1, 1, 0), DocRow(2, <<"1", "2">>, n2, b2, 1, 2, 0)}
        \cup third :
        n1 \in {<<"j">>, <<>>}, b1 \in {"d1", ""},
        n2 \in {<<"J", " ">>, <<"k">>, <<>>}, b2 \in {"d1", "d2", ""},
        third \in {{}} \cup {{DocRow(3, i, <<"j">>, "d1", 1, 3, 0)} :
                               i \in {<<"1", "*", "2">>, <<"3">>}}}

InitScan ==
    /\ InitMigrator
    /\ users = [db \in DBs |-> {}]
    /\ cache = [c \in CanonIds |-> NoUser]
    /\ docs \in {[db \in DBs |-> IF db = PAN_DB THEN p ELSE a] :
                    a \in ScannedAadhaar,
                    p \in {{DocRow(1, <<"A", "1">>, <<"J">>, "d1", 1, 1, 0),
                            DocRow(2, <<"a", "1">>, <<"J">>, "d1", 1, 2, 0)}}}
    /\ xref = [db \in DBs |-> {}]
    /\ schema = [db \in DBs |-> LegacySchema]
    /\ auditLog = <<>>
    /\ pc = [p \in Procs |-> "idle"]
    /\ loc = [p \in Procs |-> IdleLoc]
    /\ nextUid = 1
    /\ nextDoc = [db \in DBs |-> NextId(docs[db])]
    /\ ncalls = 0
    /\ done = <<>>

\* the duplicate_info dicts of a scan: number, records and the analysis flags
DuplicateInfos(db) ==
    {[number |-> i, records |-> Group(db, i),
      same_name |-> same_name(Group(db, i)), same_dob |-> same_dob(Group(db, i))] :
        i \in ScanDuplicates(db)}

\* scan_aadhaar_duplicates() / scan_pan_duplicates(): the list returned
ScanForDuplicates(db) ==
    /\ done' = <<[op |-> "scan_duplicates", db |-> db, groups |-> DuplicateInfos(db)]>>
    /\ UNCHANGED <<users, cache, docs, xref, schema, auditLog, pc, loc, nextUid, nextDoc,
                   ncalls>>
    /\ UNCHANGED migVars

NextScan == \E db \in DBs : ScanForDuplicates(db)
SpecScan == InitScan /\ [][NextScan]_vars

\* the strings the normalisers are called with
InputChars == {"1", "a", "x", "-"}
InputStrings == UNION {[1..n -> InputChars] : n \in 0..MaxLen}

\* re.match(r'^[A-Z]{5}[0-9]{4}[A-Z]$', normalized)
PanShape(s) ==
    /\ Len(s) = 10
    /\ \A i \in 1..10 : IF i \in 6..9 THEN s[i] \in DigitChars ELSE s[i] \in UpperChars

\* DuplicatePreventionService.normalize_aadhaar(aadhaar_number): the value
\* returned and whether the length warning was logged
NormalizeAadhaar(x) ==
    /\ done' = <<[op |-> "normalize_aadhaar", raw |-> x, result |-> normalize_aadhaar(x),
                  warned |-> (x # <<>> /\ Len(normalize_aadhaar(x)) # 12)]>>
    /\ UNCHANGED <<users, cache, docs, xref, schema, auditLog, pc, loc, nextUid, nextDoc,
                   ncalls>>
    /\ UNCHANGED migVars

\* DuplicatePreventionService.normalize_pan(pan_number)
NormalizePan(x) ==
    /\ done' = <<[op |-> "normalize_pan", raw |-> x, result |-> normalize_pan(x),
                  warned |-> (x # <<>> /\ ~PanShape(normalize_pan(x)))]>>
    /\ UNCHANGED <<users, cache, docs, xref, schema, auditLog, pc, loc, nextUid, nextDoc,
                   ncalls>>
    /\ UNCHANGED migVars

\* the normalisers called with any string, and with what they returned
NextNorm ==
    \E x \in InputStrings \cup {e.result : e \in {done[i] : i \in 1..Len(done)}} :
        NormalizeAadhaar(x) \/ NormalizePan(x)
SpecNorm == Init /\ [][NextNorm]_vars

\* a store file that sqlite3.connect has just created: no table at all
NewStoreSchema == {}

\* the schema manager and the identity migration on legacy stores; the PAN
\* store may also be a file that did not exist before
InitSchemaStores ==
    /\ InitMigrator
    /\ users = [db \in DBs |-> {}]
    /\ cache = [c \in CanonIds |-> NoUser]
    /\ \E a \in LegacyAadhaar, p \in LegacyPan \cup {{}} :
          /\ docs = [db \in DBs |-> IF db = PAN_DB THEN p ELSE a]
          /\ schema = [db \in DBs |-> IF docs[db] = {} THEN NewStoreSchema ELSE LegacySchema]
    /\ xref = [db \in DBs |-> {}]
    /\ auditLog = <<>>
    /\ pc = [p \in Procs |-> "idle"]
    /\ loc = [p \in Procs |-> IdleLoc]
    /\ nextUid = 1
    /\ nextDoc = [db \in DBs |-> NextId(docs[db])]
    /\ ncalls = 0
    /\ done = <<>>

\* the identity migration runs on stores that have their users table
NextSchema ==
    \/ \E db \in DBs : CreateUsersTable(db)
    \/ \E db \in DBs : AddUserIdColumns(db)
    \/ \E db \in DBs : VerifySchemaChanges(db)
    \/ \E db \in DBs : AddUniqueConstraintsCall(db)
    \/ (\A db \in DBs : "users" \in schema[db]) /\ MigrateExistingDataToUserSystem
SpecSchema == InitSchemaStores /\ [][NextSchema]_vars

-----------------------------------------------------------------------------
(* Claims about the UserDirectory *)

IsCall(e, op) == e.op = op /\ e.err = "none"

\* C1: two sequential get_or_create_user_id calls with the same identifier, the
\* first on an identifier that no store holds, return the same user_id; the
\* stored document_count of that user is 1 after the first call and 2 after
\* the second.
C1_SameUserCountOneThenTwo ==
    /\ \A i \in 1..Len(done) :
          IsCall(done[i], "goc") /\ done[i].fresh
             => done[i].uid # 0 /\ done[i].count = 1
    /\ Len(done) = 2 /\ IsCall(done[1], "goc") /\ IsCall(done[2], "goc")
          /\ done[1].fresh /\ done[2].canon = done[1].canon
             => /\ done[2].uid = done[1].uid
                /\ done[1].count = 1
                /\ done[2].count = 2

C1_Witness ==
    /\ Len(done) = 2 /\ IsCall(done[1], "goc") /\ IsCall(done[2], "goc")
    /\ done[1].fresh /\ done[2].canon = done[1].canon
    /\ done[2].count = 2 /\ StoredCount(done[2].uid) = 2

\* C2: two concurrent get_or_create_user_id calls for one identifier that is in
\* neither store beforehand, whatever store each prefers, return the same
\* user_id and leave exactly one user row with that identifier in the two stores.
C2_ConcurrentCreateOneIdentity ==
    /\ \A p \in Procs : Idle(p)
    /\ ncalls = 2 /\ Len(done) = 2
    /\ IsCall(done[1], "goc") /\ IsCall(done[2], "goc")
    /\ done[1].fresh /\ done[2].fresh /\ done[1].canon = done[2].canon
    => /\ done[1].uid = done[2].uid
       /\ Cardinality(RowsWithCanon(done[1].canon)) = 1

\* C3: create_user for an identifier that the target store already holds raises
\* nothing, returns the user_id of that existing row and adds no row.
C3_DuplicateCreateReturnsExisting ==
    \A i \in 1..Len(done) :
        done[i].op = "create_user" /\ done[i].pre /\ done[i].err # "ValueError"
           => /\ done[i].err = "none"
              /\ ~done[i].wrote
              /\ \E r \in UsersByAadhaar(done[i].db, done[i].canon) :
                     r.user_id = done[i].uid

-----------------------------------------------------------------------------
(* Claims about the ingestion boundary *)

DuplicateCodes == {"DUPLICATE_AADHAAR", "DUPLICATE_PAN"}

IsIngest(e, db) == e.op = "ingest" /\ e.db = db

\* the record ingested first among those of store db with canonical identifier canon
FirstWithCanonical(db, canon) ==
    CHOOSE d \in docs[db] :
        /\ Normalize(db, d.ident) = canon
        /\ \A e \in docs[db] : Normalize(db, e.ident) = canon => d.id <= e.id

\* C4: an Aadhaar ingestion with a name, whose number has the canonical form of a
\* number ingested before, is rejected with DUPLICATE_AADHAAR; the rejection's
\* existing_user_id and existing_document_id are the user_id and the id of the
\* document ingested first, and the call adds no row.
C4_ReingestRejectedWithFirstUser ==
    \A i \in 1..Len(done) :
        IsIngest(done[i], AADHAAR_DB) /\ done[i].pre /\ done[i].err # "INVALID_DOCUMENT_DATA"
           => /\ done[i].err = "DUPLICATE_AADHAAR"
              /\ ~done[i].wrote
              /\ LET first == FirstWithCanonical(AADHAAR_DB, done[i].canon) IN
                    /\ done[i].existing_user_id = first.user_id
                    /\ done[i].existing_document_id = first.id

\* C5: validate_document_uniqueness answers (False, existing record) exactly when
\* the store of the document type holds a record whose identifier has the
\* canonical form of the submitted identifier, (True, None) otherwise, and
\* writes nothing.
C5_ValidateFindsSameCanonical ==
    \A i \in 1..Len(done) :
        done[i].op = "validate"
           => /\ (DOMAIN done[i].existing # {}) <=> done[i].pre
              /\ ~done[i].wrote

\* C6: in every reachable state each store holds at most one document record
\* per canonical identifier.
C6_OneRecordPerCanonical ==
    \A db \in DBs : \A d, e \in docs[db] :
        Normalize(db, d.ident) = Normalize(db, e.ident) => d = e

\* C7: every duplicate rejection of store_in_database was preceded, in the same
\* call, by an audit entry naming the existing record.
C7_DuplicateRejectionAudited ==
    \A i \in 1..Len(done) :
        done[i].op = "ingest" /\ done[i].err \in DuplicateCodes
           => /\ done[i].audited
              /\ \E k \in 1..Len(auditLog) :
                    /\ auditLog[k].document_type = DocType(done[i].db)
                    /\ auditLog[k].document_id = done[i].existing_document_id

\* C8: a store_in_database call that ends in a DUPLICATE_AADHAAR, DUPLICATE_PAN
\* or INVALID_DOCUMENT_DATA rejection has written to no store, and a duplicate
\* rejection carries a snapshot of the existing record.
C8_RejectionLeavesStoresUnchanged ==
    \A i \in 1..Len(done) :
        done[i].op = "ingest"
           => /\ done[i].err \in DuplicateCodes \cup {"INVALID_DOCUMENT_DATA"}
                    => ~done[i].wrote
              /\ done[i].err \in DuplicateCodes => DOMAIN done[i].existing # {}

-----------------------------------------------------------------------------
(* Claims about the migration *)

InFixedOrder(steps) ==
    \A i, j \in 1..Len(steps) : i < j => StepRank(steps[i]) < StepRank(steps[j])

\* C9: in every run of run_complete_migration the steps that have started so far
\* follow the fixed order create_backups, schema_updates, cleanup_duplicates,
\* user_migration, apply_constraints, verify_integrity with no step twice; every
\* started step but the last has completed; steps_completed lists completed
\* steps in that order; and a run that is not a dry run skips no step.
C9_StepsInFixedOrder ==
    mig.op = "run" =>
        /\ InFixedOrder(mig.steps_started)
        /\ InFixedOrder(mig.steps_completed)
        /\ \A i \in 1..Len(mig.steps_started) - 1 :
              \E k \in 1..Len(mig.steps_completed) :
                  mig.steps_completed[k] = mig.steps_started[i]
        /\ \A k \in 1..Len(mig.steps_completed) :
              \E i \in 1..Len(mig.steps_started) :
                  mig.steps_started[i] = mig.steps_completed[k]
        /\ ~mig.dry_run =>
              \A i \in 1..Len(mig.steps_started) : mig.steps_started[i] = StepsInOrder[i]

C9_Witness ==
    /\ mig.op = "run" /\ mig.pc = "idle"
    /\ mig.steps_started = <<"cleanup_duplicates", "verify_integrity">>
    /\ mig.steps_completed = mig.steps_started

\* a step of run_complete_migration(dry_run=True), its first included, or a call
\* of cleanup_aadhaar_duplicates / cleanup_pan_duplicates with dry_run=True
DryRunStep ==
    \/ mig.op = "run" /\ mig.dry_run /\ mig.pc # "idle"
    \/ mig'.calls = mig.calls + 1 /\ mig'.dry_run /\ mig'.op \in {"run", "cleanup"}

\* C10: no step of a dry run deletes or changes a record, creates a backup or
\* changes the schema or the identity ledger of either store; the plan it returns
\* is a cleanup plan of the unchanged store.
C10_DryRunChangesNothing ==
    [][DryRunStep =>
          /\ UNCHANGED <<docs, users, xref, schema, backups>>
          /\ \A db \in DBs : mig'.plan[db] \notin {mig.plan[db], NoPlan}
                                  => mig'.plan[db] \in Plans(db)]_vars

C10_Witness ==
    /\ mig.dry_run /\ mig.pc = "idle" /\ mig.op \in {"run", "cleanup"}
    /\ backups = {}
    /\ \E db \in DBs :
          /\ mig.plan[db].remove # {}
          /\ \A id \in mig.plan[db].remove : \E d \in docs[db] : d.id = id

\* C11: a run with dry_run=True executes only the duplicate cleanup planning and
\* ends there: no backup, schema, identity migration, constraint or integrity
\* verification step is executed or recorded in steps_completed.
C11_DryRunOnlyPlans ==
    mig.op = "run" /\ mig.dry_run =>
        /\ mig.pc \in {"cleanup_duplicates", "idle"}
        /\ \A i \in 1..Len(mig.steps_started) : mig.steps_started[i] = "cleanup_duplicates"
        /\ \A i \in 1..Len(mig.steps_completed) : mig.steps_completed[i] = "cleanup_duplicates"

\* a step of the cleanup that is not a dry run: a step of
\* run_complete_migration(dry_run=False) after its start, or a whole call of
\* cleanup_<type>_duplicates(dry_run=False) (the cleanup-only mode of main)
NonDryRunStep ==
    \/ mig.op = "run" /\ ~mig.dry_run /\ mig.pc # "idle"
    \/ mig'.calls = mig.calls + 1 /\ ~mig'.dry_run /\ mig'.op = "cleanup"

\* the step changes the schema, the document records or the ledger of store db
StoreMutated(db) ==
    docs'[db] # docs[db] \/ schema'[db] # schema[db] \/ users'[db] # users[db]

\* the run in progress has taken its backup of store db
BackedUpInRun(db) ==
    /\ mig.op = "run" /\ mig.pc # "idle"
    /\ \E b \in mig.backups_created : b.db = db /\ b \in backups

\* C12: when the migrator, not in dry-run mode, changes a store (schema, records,
\* user_id assignment, index), a backup of that store was created earlier in
\* the same run.
C12_BackupBeforeMutation ==
    [][\A db \in DBs : NonDryRunStep /\ StoreMutated(db) => BackedUpInRun(db)]_vars

RunInProgress == mig.op = "run" /\ mig.pc # "idle"
RunReturned == mig.op = "run" /\ mig.pc = "idle"

FinalStatuses == {"completed_successfully", "completed_with_warnings",
                  "completed_with_errors", "failed"}

\* the result run_complete_migration returns
FinalStatusIsSound ==
    /\ RunInProgress => mig.final_status = "in_progress"
    /\ RunReturned =>
          /\ mig.final_status \in FinalStatuses
          /\ mig.final_status = "completed_successfully" =>
                /\ mig.steps_failed = <<>>
                /\ mig.steps_completed[Len(mig.steps_completed)] = "verify_integrity"
                /\ ~mig.issues /\ ~\E db \in DBs : HasIssues(db)
          /\ mig.final_status = "completed_with_warnings" =>
                /\ mig.steps_failed = <<>>
                /\ mig.steps_completed[Len(mig.steps_completed)] = "verify_integrity"
                /\ mig.issues /\ \E db \in DBs : HasIssues(db)

\* a step of a run in progress returns the result or moves on to a later step
RunAdvances ==
    RunInProgress =>
        \/ RunReturned'
        \/ RunInProgress' /\ StepRank(mig'.pc) > StepRank(mig.pc)

\* C13: a call of run_complete_migration never stays where it is or goes back:
\* each of its steps returns or moves to a later step, and a run in progress
\* can always take its step, so it returns after at most six steps; the
\* final_status it returns is completed_successfully, completed_with_warnings,
\* completed_with_errors or failed, never in_progress; completed_successfully
\* only when no step failed and the integrity verification found no issue,
\* completed_with_warnings only when no step failed and it found issues.
C13_TerminatesWithFinalStatus ==
    /\ [](FinalStatusIsSound /\ (RunInProgress => ENABLED NextMig))
    /\ [][RunAdvances]_vars

C13_Witness ==
    /\ RunReturned /\ mig.final_status = "completed_with_warnings"
    /\ mig.steps_completed = <<"cleanup_duplicates", "verify_integrity">>

InSeq(x, seq) == \E i \in 1..Len(seq) : seq[i] = x

\* C14: a failed step stops only itself: the run goes on with the later steps
\* and the integrity verification, lists the failed step in steps_failed and
\* returns completed_with_errors.
C14_FailedStepOnlyHaltsItself ==
    \A step \in {StepsInOrder[i] : i \in 1..Len(StepsInOrder)} :
        RunReturned /\ InSeq(step, mig.steps_started) /\ ~InSeq(step, mig.steps_completed)
            => /\ InSeq(step, mig.steps_failed)
               /\ \A i \in StepRank(step) + 1 .. Len(StepsInOrder) :
                     InSeq(StepsInOrder[i], mig.steps_started)
               /\ InSeq("verify_integrity", mig.steps_completed)
               /\ mig.final_status = "completed_with_errors"

\* the step in which cleanup_<type>_duplicates computes its plan for store db
PlanMade(db) ==
    /\ mig'.plan[db] # NoPlan
    /\ \/ mig.op = "run" /\ mig.pc = "cleanup_duplicates"
       \/ mig'.op = "cleanup" /\ mig'.calls = mig.calls + 1

\* the ids of the records the scan found stored under identifier ident
GroupIds(db, ident) == {d.id : d \in Group(db, ident)}

\* C15: in every cleanup plan, each automatically resolved group has exactly one
\* member in records_to_keep and all its other members in records_to_remove
\* (kept + removed = size of the group); no record is both kept and removed.
C15_PlanKeepsOnePerGroup ==
    [][\A db \in DBs : PlanMade(db) =>
          LET plan == mig'.plan[db] IN
          /\ plan.keep \cap plan.remove = {}
          /\ \A i \in plan.groups \ plan.manual :
                /\ Cardinality(GroupIds(db, i) \cap plan.keep) = 1
                /\ GroupIds(db, i) \ plan.keep \subseteq plan.remove
                /\ Cardinality(GroupIds(db, i) \cap plan.keep)
                      + Cardinality(GroupIds(db, i) \cap plan.remove)
                   = Cardinality(GroupIds(db, i))]_vars

\* a group of three records was resolved: one kept, two removed
C15_Witness ==
    /\ mig.op \in {"run", "cleanup"} /\ mig.pc = "idle"
    /\ \E db \in DBs : /\ Cardinality(mig.plan[db].groups) = 1
                      /\ mig.plan[db].manual = {}
                      /\ Cardinality(mig.plan[db].keep) = 1
                      /\ Cardinality(mig.plan[db].remove) = 2

\* C16: a cleanup that is not a dry run leaves exactly one record, a record of
\* the group as it was stored, for every group it resolves automatically; of a
\* group of two records with the same identifier, name and date of birth it
\* keeps one and removes one; a scan after it no longer reports the group.
C16_CleanupLeavesOneSurvivor ==
    [][\A db \in DBs : PlanMade(db) /\ ~mig'.dry_run =>
          LET plan == mig'.plan[db] IN
          \A i \in plan.groups \ plan.manual :
              /\ Cardinality({d \in docs'[db] : d.ident = i}) = 1
              /\ {d \in docs'[db] : d.ident = i} \subseteq Group(db, i)
              /\ {d.id : d \in {x \in docs'[db] : x.ident = i}} \subseteq plan.keep
              /\ i \notin ScanDuplicates(db)'
              /\ Cardinality(Group(db, i)) = 2 /\ same_name(Group(db, i))
                                                /\ same_dob(Group(db, i))
                    => /\ Cardinality(GroupIds(db, i) \cap plan.keep) = 1
                       /\ Cardinality(GroupIds(db, i) \cap plan.remove) = 1
                       /\ \A d \in docs'[db] : d.id \notin plan.remove]_vars

\* a cleanup removed the second record of a pair and kept the first
C16_Witness ==
    /\ mig.op = "cleanup" /\ ~mig.dry_run /\ mig.pc = "idle"
    /\ mig.plan[PAN_DB].keep = {1} /\ mig.plan[PAN_DB].remove = {2}
    /\ {d.id : d \in docs[PAN_DB]} = {1}

\* two records of g carry names that differ after trimming and upper-casing
DifferentNames(g) ==
    \E d, e \in g : /\ d.name # <<>> /\ e.name # <<>>
                    /\ UpperStr(Strip(d.name)) # UpperStr(Strip(e.name))

\* C17: a duplicate group whose records carry two or more different names is
\* put in manual_review_needed, none of its records is in records_to_keep or
\* records_to_remove, and the cleanup leaves all its records in the store.
C17_DifferentNamesLeftForReview ==
    [][\A db \in DBs : PlanMade(db) =>
          \A i \in ScanDuplicates(db) :
              DifferentNames(Group(db, i)) =>
                  /\ i \in mig'.plan[db].manual
                  /\ GroupIds(db, i) \cap (mig'.plan[db].keep \cup mig'.plan[db].remove) = {}
                  /\ Group(db, i) \subseteq docs'[db]]_vars

\* a cleanup, not a dry run, has left a group with different names for review
C17_Witness ==
    /\ mig.op = "cleanup" /\ ~mig.dry_run /\ mig.pc = "idle"
    /\ \E db \in DBs :
          /\ mig.plan[db].manual # {}
          /\ \A i \in mig.plan[db].manual :
                DifferentNames(Group(db, i)) /\ Cardinality(Group(db, i)) >= 2

\* migrate_existing_data_to_user_system has returned, on stores that have the
\* user_id columns
IdentityMigrationDone ==
    /\ mig.pc = "idle"
    /\ \/ mig.op = "migrate_existing_data_to_user_system"
       \/ mig.op = "run" /\ mig.steps_completed # <<>>
                         /\ mig.steps_completed[Len(mig.steps_completed)] = "user_migration"
    /\ \A db \in DBs : HasUserIdColumns(db)

\* C18: after the identity migration every document record of both stores
\* carries a user_id, records with the same identifier carry the same user_id,
\* and that user_id is the one of a user of the ledger.
C18_EveryRecordGetsLedgerUser ==
    IdentityMigrationDone =>
        \A db \in DBs : \A d \in docs[db] :
            /\ d.user_id # 0
            /\ \E l \in DBs : \E r \in users[l] : r.user_id = d.user_id
            /\ \A e \in docs[db] : e.ident = d.ident => e.user_id = d.user_id

\* the step creates the unique index on the identifier column of store db
IndexCreated(db) == UniqueIndex \in schema'[db] /\ UniqueIndex \notin schema[db]

\* C19: within a run of run_complete_migration the unique index on a document
\* identifier column is not created, so no successful attempt to create it is
\* made, before the cleanup_duplicates step of that run has completed.
C19_IndexOnlyAfterCleanup ==
    [][\A db \in DBs :
          mig.op = "run" /\ mig.pc # "idle" /\ IndexCreated(db)
              => InSeq("cleanup_duplicates", mig.steps_completed)]_vars

SchemaOps == {"create_users_table", "add_user_id_columns"}

\* the step is a call of create_users_table or add_user_id_columns on store db
SchemaOpStep(db) ==
    mig'.calls = mig.calls + 1 /\ mig'.op \in SchemaOps /\ mig'.db = db

HasDocumentTables(db) == {"documents", "extracted_fields"} \subseteq schema[db]

\* what the operation named op does to a set of schema objects
SchemaOpOn(op, objects) ==
    IF op = "create_users_table" THEN CreateUsersTableOn(objects)
    ELSE AddUserIdColumnsOn(objects)

C21_VerifyReportsLedgerAndIndex ==
    mig.op = "verify_schema_changes" /\ mig.db \in DBs
        => (UsersTableObjects \subseteq schema[mig.db]
               => /\ mig.verification.users_table_exists
                  /\ mig.verification.unique_indexes_count >= 1)

\* C22: when add_unique_constraints has returned on a store whose field holds
\* equal values, it has returned failure, the error it logged tells the caller
\* to run the duplicate scan and cleanup first, and the store has no unique
\* index.
C22_DuplicateValuesFailLoudly ==
    mig.op = "add_unique_constraints" /\ mig.db \in DBs
        => (HasDuplicateValues(mig.db)
               => /\ mig.final_status = "failed"
                  /\ UniqueIndex \notin schema[mig.db]
                  /\ "run the duplicate scan and cleanup first" \in mig.error)

\* C23: every step of sync_user_across_databases keeps every ledger row of both
\* stores as it was; the only change it can make is to add, to a store that had
\* no row with the synced user_id, a copy of the row the other store holds for
\* it, so a call that finds the user_id in the target changes neither store.
SyncLabels == {"sy_find", "sy_check", "sy_insert"}

SyncStepOf(p) == pc[p] \in SyncLabels /\ pc'[p] # pc[p]

C23_SyncIsUpsertIfAbsent ==
    [][\A p \in Procs : SyncStepOf(p) =>
          \A db \in DBs :
             /\ users[db] \subseteq users'[db]
             /\ \A r \in users'[db] \ users[db] :
                   /\ r.user_id = loc[p].uid
                   /\ UsersById(db, loc[p].uid) = {}
                   /\ r \in users[OtherDb(db)]]_vars

\* a second sync of a user_id has found the row that an earlier PAN ingestion
\* had synced into the PAN store and has returned without writing
C23_Witness ==
    /\ pc[1] = "st_insert" /\ IsUser(loc[1].found) /\ ~loc[1].wrote
    /\ UsersById(PAN_DB, loc[1].uid) # {}
    /\ UsersById(AADHAAR_DB, loc[1].uid) = UsersById(PAN_DB, loc[1].uid)
    /\ \E i \in 1..Len(done) :
          /\ done[i].op = "ingest" /\ done[i].db = PAN_DB
          /\ done[i].uid = loc[1].uid /\ done[i].err = "none"

\* C24: in every state, two different ledger rows of one store differ in
\* user_id and, unless the canonical identifier is empty, in canonical
\* identifier; and rows of the two stores with the same user_id carry the same
\* identifier.
C24_LedgerKeysUnique ==
    /\ \A db \in DBs : \A r, t \in users[db] :
          r # t => /\ r.user_id # t.user_id
                   /\ normalize_aadhaar(r.aadhaar_number) # <<>>
                         => normalize_aadhaar(r.aadhaar_number)
                               # normalize_aadhaar(t.aadhaar_number)
    /\ \A r \in users[AADHAAR_DB], t \in users[PAN_DB] :
          r.user_id = t.user_id => r.aadhaar_number = t.aadhaar_number

\* the PAN store holds two users, one of them created there and one synced
\* from the Aadhaar store under the user_id it has there
C24_Witness ==
    /\ Cardinality(users[PAN_DB]) >= 2
    /\ \E r \in users[AADHAAR_DB], t \in users[PAN_DB] : r.user_id = t.user_id

\* C25: no step removes a ledger row or gives it another user_id: every row of
\* a store is, after the step, still in that store with its user_id and its
\* identifier, so the set of user_ids of each store only grows.
UserIds(db) == {r.user_id : r \in users[db]}

C26_MigrationLogAppendOnly ==
    [][schemaLog' # schemaLog =>
          \E e \in {schemaLog'[Len(schemaLog')]} :
             /\ schemaLog' = Append(schemaLog, e)
             /\ e.details = "written"]_vars

\* C27: when the identity migration has already run on stores that have the
\* migrated schema, running the schema migration or the identity migration
\* again changes nothing in the stores: the ledgers (so every user and every
\* document_count) and every record with its owning user_id stay as they were.
MigrationRerun ==
    /\ IdentityMigrationDone
    /\ mig' # mig
    /\ mig'.op \in {"migrate_all_databases", "migrate_existing_data_to_user_system"}

C27_RerunChangesNoStore ==
    [][MigrationRerun => users' = users /\ docs' = docs /\ schema' = schema]_vars

\* C28: what normalize_aadhaar returns is made of digits and X only and is
\* returned unchanged when normalised again; what normalize_pan returns is
\* made of upper-case letters and digits only and is returned unchanged when
\* normalised again; a call has a result whatever the length of its input.
NormalizedLast == IF done = <<>> THEN <<>> ELSE done[1].result

C28_NormalizeIdempotent ==
    done # <<>> =>
        /\ done[1].op = "normalize_aadhaar" =>
              /\ normalize_aadhaar(NormalizedLast) = NormalizedLast
              /\ \A k \in 1..Len(NormalizedLast) : NormalizedLast[k] \in {"1", "2", "3", "X"}
        /\ done[1].op = "normalize_pan" =>
              /\ normalize_pan(NormalizedLast) = NormalizedLast
              /\ \A k \in 1..Len(NormalizedLast) :
                    NormalizedLast[k] \in {"1", "2", "3", "A", "J", "K", "X"}

\* normalize_aadhaar has returned the masked digits of an input with
\* separators and lower case, of the wrong length, after the warning
C28_Witness ==
    /\ done # <<>> /\ done[1].op = "normalize_aadhaar"
    /\ done[1].raw = <<"1", "-", "x">> /\ done[1].result = <<"1", "X">>
    /\ done[1].warned

\* C29: when every write has completed (no call is in progress), the cache
\* holds for no identifier a record that differs in document_count from the
\* stored one, so a lookup that starts now returns the current record.
C29_CacheNeverStale ==
    (\A p \in Procs : Idle(p)) =>
        \A c \in CanonIds :
            IsUser(cache[c]) => cache[c].document_count = StoredCount(cache[c].user_id)

\* C30: in every cleanup plan the record kept for an automatically resolved
\* group has a confidence no member of the group exceeds; when all members of
\* the group have the same name and date of birth, no member with that
\* confidence was created later than the record kept.
AllShareNameAndDob(g) == \A d, e \in g : SameName(d.name, e.name) /\ d.dob = e.dob

C30_SurvivorHasHighestConfidence ==
    [][\A db \in DBs : PlanMade(db) =>
          \A i \in mig'.plan[db].groups \ mig'.plan[db].manual :
             \A k \in Group(db, i) :
                k.id \in mig'.plan[db].keep =>
                   /\ \A e \in Group(db, i) : e.conf <= k.conf
                   /\ AllShareNameAndDob(Group(db, i)) =>
                         \A e \in Group(db, i) : e.conf = k.conf => e.at <= k.at]_vars

\* a dry run planned a group of three with the same name and date of birth:
\* records 2 and 3 have the highest confidence and record 3, created later, is kept
C30_Witness ==
    /\ mig.op \in {"run", "cleanup"} /\ mig.dry_run
    /\ mig.plan[AADHAAR_DB].keep = {3} /\ mig.plan[AADHAAR_DB].remove = {1, 2}
    /\ AllShareNameAndDob(docs[AADHAAR_DB])
    /\ \E d, e \in docs[AADHAAR_DB] :
          d.id = 2 /\ e.id = 3 /\ d.conf = e.conf /\ d.at < e.at /\ d.ident = e.ident

\* C31: in every group a scan returns, same_name is true exactly when all
\* members have equal names after trimming and ignoring case, and same_dob is
\* true exactly when all members have the same date of birth.
C31_SameNameIffAllNamesEqual ==
    done # <<>> =>
        \A g \in done[1].groups :
            /\ g.same_name <=> \A d, e \in g.records : SameName(d.name, e.name)
            /\ g.same_dob <=> \A d, e \in g.records : d.dob = e.dob

\* C32: a scan of a store returns, for every non-empty normalized identifier
\* that more than one record of the store carries, exactly one group, which
\* holds all those records, and no group for an identifier carried by one
\* record.
GroupsOfCanonical(c) ==
    {g \in done[1].groups : Normalize(done[1].db, g.number) = c}

C32_OneGroupPerNormalizedIdentifier ==
    done # <<>> =>
        \A c \in {Normalize(done[1].db, d.ident) : d \in docs[done[1].db]} \ {<<>>} :
            IF Cardinality(SameCanonical(done[1].db, c)) > 1
              THEN /\ Cardinality(GroupsOfCanonical(c)) = 1
                   /\ \A g \in GroupsOfCanonical(c) : g.records = SameCanonical(done[1].db, c)
              ELSE GroupsOfCanonical(c) = {}

\* C33: when two get_or_create_user_id calls for one identifier, which no
\* store held before, are the only calls made and both have returned, in
\* whatever interleaving, the identifier has one user and its stored
\* document_count is 2.
C33_CountEqualsCompletedCalls ==
    /\ \A p \in Procs : Idle(p)
    /\ ncalls = 2 /\ Len(done) = 2
    /\ IsCall(done[1], "goc") /\ IsCall(done[2], "goc")
    /\ done[1].canon = done[2].canon /\ done[1].fresh
    => \A r \in RowsWithCanon(done[1].canon) : r[2].document_count = 2

\* C34: the step that appends 'verify_integrity' to the migration log changes no
\* record, ledger entry, cross-reference, schema object or backup of either
\* store, and when it reports no issue no store holds a duplicate group or a
\* record without user_id.
C34_VerifyOnlyReads ==
    [][migrationLog' = Append(migrationLog, "verify_integrity")
         => /\ users' = users /\ docs' = docs /\ xref' = xref
            /\ schema' = schema /\ backups' = backups
            /\ ~mig'.issues => \A db \in DBs : /\ ScanDuplicates(db) = {}
                                               /\ \A d \in docs[db] : d.user_id # 0]_vars

\* the verification has just run on stores that still hold a duplicate group and
\* has reported it
C34_Witness ==
    /\ migrationLog # <<>> /\ migrationLog[Len(migrationLog)] = "verify_integrity"
    /\ mig.issues
    /\ \E db \in DBs : ScanDuplicates(db) # {}

\* C35: every user_id stored on a document record of either store is the user_id
\* of a users row of at least one store.
C35_NoDanglingUserId ==
    \A db \in DBs : \A d \in docs[db] :
        d.user_id # 0 => \E s \in DBs : \E r \in users[s] : r.user_id = d.user_id

\* C36: a PAN store_in_database call that has passed the uniqueness check (its
\* PAN number is not stored) and whose name is the name of no user of the
\* Aadhaar ledger does not end in an error: when it returns, it returns success
\* with a user_id that the PAN store's ledger holds and that owns a document.
C36_PanOnlyIngestSucceeds ==
    [][\A p \in Procs :
          /\ pc[p] = "pn_match"
          /\ \A u \in users[AADHAAR_DB] : ~SameName(u.primary_name, loc[p].name)
          /\ pc'[p] = "idle"
          => /\ done'[Len(done')].err = "none"
             /\ \E r \in users'[PAN_DB] : r.user_id = done'[Len(done')].uid
             /\ \E d \in docs'[PAN_DB] : d.user_id = done'[Len(done')].uid]_vars

\* C37: when migrate_all_databases has run on stores holding the document
\* tables and has made its backups, created the users tables and added the
\* user_id columns, the log entry it appended for each store says 'success' and
\* a run does not count schema_updates among its failed steps.
C37_SchemaMigrationReportsSuccess ==
    [][/\ schemaLog' # schemaLog
       /\ \A db \in DBs : /\ BackupOf(db, "schema") \in backups'
                          /\ UsersTableObjects \cup UserIdColumns \subseteq schema'[db]
       => /\ \A db \in DBs : \E i \in 1..Len(schemaLog') :
                /\ i > Len(schemaLog') - 2
                /\ schemaLog'[i].operation = SchemaOperation(db)
                /\ schemaLog'[i].status = "success"
          /\ \A k \in 1..Len(mig'.steps_failed) : mig'.steps_failed[k] # "schema_updates"]_vars

====
